---- MODULE Spec2Model ----
(***************************************************************************)
(* The accelerometer viewer page (src/main.js): a Web Bluetooth client of  *)
(* a Nordic UART Service peripheral.  The model covers the line parser,    *)
(* the rolling chart buffer, the sample log, the CSV export, the           *)
(* recalibration write and the connect / disconnect handlers with their    *)
(* await points.                                                           *)
(*                                                                         *)
(* Text is a sequence of one-character strings.  A JavaScript number is a  *)
(* record [k, v]: k = "num" with the integer value v, k = "nan", or        *)
(* k = "inf" with the sign v.  The inputs contain no '.', so every finite  *)
(* number that occurs is an integer.                                       *)
(***************************************************************************)
EXTENDS Integers, Sequences, FiniteSets, Bags, TLC

(***************************************************************************)
(* Bounds of the model.                                                    *)
(***************************************************************************)
MaxChunk == 9       \* longest notification payload delivered in one event
MaxCalls == 2       \* connectBLE / disconnectBLE calls in flight at once
MaxSessions == 2    \* GATT sessions the peripheral accepts
MaxWrites == 1      \* writeValue requests in flight at once
MaxListeners == 2   \* closures registered on one characteristic
PageChunk == 5      \* notification length when the whole page is explored

(***************************************************************************)
(* Characters and JavaScript string primitives.                            *)
(***************************************************************************)
NL == "\n"

WhiteSpace == {" ", "\r", "\t", NL}

Digits == {"0", "1", "2", "3", "4", "5", "6", "7", "8", "9"}

DigitVal(c) ==
  CASE c = "0" -> 0 [] c = "1" -> 1 [] c = "2" -> 2 [] c = "3" -> 3
    [] c = "4" -> 4 [] c = "5" -> 5 [] c = "6" -> 6 [] c = "7" -> 7
    [] c = "8" -> 8 [] c = "9" -> 9

DigitChar(d) ==
  CASE d = 0 -> "0" [] d = 1 -> "1" [] d = 2 -> "2" [] d = 3 -> "3"
    [] d = 4 -> "4" [] d = 5 -> "5" [] d = 6 -> "6" [] d = 7 -> "7"
    [] d = 8 -> "8" [] d = 9 -> "9"

NaN == [k |-> "nan", v |-> 0]

Inf(sign) == [k |-> "inf", v |-> sign]

Num(n) == [k |-> "num", v |-> n]

\* Number.isFinite
isFinite(x) == x.k = "num"

RECURSIVE TrimStart(_)
TrimStart(s) ==
  IF s # <<>> /\ Head(s) \in WhiteSpace THEN TrimStart(Tail(s)) ELSE s

RECURSIVE TrimEnd(_)
TrimEnd(s) ==
  IF s # <<>> /\ s[Len(s)] \in WhiteSpace
  THEN TrimEnd(SubSeq(s, 1, Len(s) - 1))
  ELSE s

\* String.prototype.trim
trim(s) == TrimEnd(TrimStart(s))

\* String.prototype.split(sep): the pieces between the separators, always
\* at least one piece
RECURSIVE SplitFrom(_, _, _)
SplitFrom(s, sep, cur) ==
  IF s = <<>> THEN <<cur>>
  ELSE IF Head(s) = sep THEN <<cur>> \o SplitFrom(Tail(s), sep, <<>>)
  ELSE SplitFrom(Tail(s), sep, Append(cur, Head(s)))

split(s, sep) == SplitFrom(s, sep, <<>>)

RECURSIVE DigitsValue(_, _)
DigitsValue(s, acc) ==
  IF s = <<>> THEN acc ELSE DigitsValue(Tail(s), 10 * acc + DigitVal(Head(s)))

AllDigits(s) == s # <<>> /\ \A i \in 1..Len(s) : s[i] \in Digits

InfinityText == <<"I", "n", "f", "i", "n", "i", "t", "y">>

\* the unsigned part of a StrDecimalLiteral
UnsignedNumber(s) ==
  IF s = InfinityText THEN Inf(1)
  ELSE IF AllDigits(s) THEN Num(DigitsValue(s, 0))
  ELSE NaN

Negate(x) ==
  IF x.k = "nan" THEN x ELSE [k |-> x.k, v |-> 0 - x.v]

\* Number(string): white space stripped, the empty string is 0, a signed
\* decimal literal or Infinity is its value, anything else is NaN
Number(s) ==
  LET body == trim(s) IN
    IF body = <<>> THEN Num(0)
    ELSE IF Head(body) = "-" THEN Negate(UnsignedNumber(Tail(body)))
    ELSE IF Head(body) = "+" THEN UnsignedNumber(Tail(body))
    ELSE UnsignedNumber(body)

RECURSIVE DigitPrefix(_)
DigitPrefix(s) ==
  IF s # <<>> /\ Head(s) \in Digits
  THEN <<Head(s)>> \o DigitPrefix(Tail(s))
  ELSE <<>>

\* parseInt(string, 10): leading white space skipped, an optional sign, then
\* the longest prefix of digits; NaN when there is no digit
parseInt(s) ==
  LET body == TrimStart(s)
      neg == body # <<>> /\ Head(body) = "-"
      signed == body # <<>> /\ Head(body) \in {"-", "+"}
      ds == DigitPrefix(IF signed THEN Tail(body) ELSE body)
  IN IF ds = <<>> THEN NaN
     ELSE IF neg THEN Num(0 - DigitsValue(ds, 0))
     ELSE Num(DigitsValue(ds, 0))

\* ToBoolean of a number: NaN and 0 are falsy
Truthy(x) == x.k = "inf" \/ (x.k = "num" /\ x.v # 0)

\* a > b on an integer a and a number b; false when b is NaN
GreaterThan(a, b) ==
  CASE b.k = "num" -> a > b.v
    [] b.k = "inf" -> b.v < 0
    [] OTHER -> FALSE

RECURSIVE NatToString(_)
NatToString(n) ==
  IF n < 10 THEN <<DigitChar(n)>>
  ELSE NatToString(n \div 10) \o <<DigitChar(n % 10)>>

\* Number.prototype.toString of an integer
NumberToString(n) ==
  IF n < 0 THEN <<"-">> \o NatToString(0 - n) ELSE NatToString(n)

\* Array.prototype.join over a sequence of texts
RECURSIVE join(_, _)
join(parts, sep) ==
  IF parts = <<>> THEN <<>>
  ELSE IF Len(parts) = 1 THEN parts[1]
  ELSE parts[1] \o sep \o join(Tail(parts), sep)


(***************************************************************************)
(* The texts the peripheral sends.  Each is delivered in notification      *)
(* chunks of every length up to MaxChunk.                                  *)
(***************************************************************************)
\* four well-formed lines
TextSamples ==
  <<"1", ",", "2", ",", "3", ",", "4", NL, "5", ",", "6", ",", "7", ",", "8", NL, "9", ",", "0", ",", "1", ",", "2", NL, "3", ",", "4", ",", "5", ",", "6", NL>>

\* a blank line, a word, two fields, a non-numeric field, an unfinished line
TextMalformed ==
  <<"5", ",", "6", ",", "7", ",", "8", NL, NL, "x", NL, "1", ",", "2", NL, "9", ",", "x", ",", "1", ",", "2", NL, "3", ",", "4", ",", "5", ",", "6", NL, "7", ",">>

\* white space, CR LF, signs and an unterminated last line
TextSpaces ==
  <<" ", "7", ",", "8", ",", "9", ",", "0", "\r", NL, "-", "1", ",", "+", "2", ",", " ", "3", ",", "4", NL, "5", ",", "6">>

\* Infinity, NaN and fields of two digits
TextNonFinite ==
  <<"1", ",", "2", ",", "3", ",", "I", "n", "f", "i", "n", "i", "t", "y", NL, "1", ",", "N", "a", "N", ",", "3", ",", "4", NL, "1", "0", ",", "2", "0", ",", "3", "0", ",", "4", "0", NL>>

\* five fields, empty fields, a bare sign
TextExtra ==
  <<"1", ",", "2", ",", "3", ",", "4", ",", "x", NL, "1", ",", ",", "2", ",", "3", NL, ",", ",", ",", NL, "-", ",", "1", ",", "2", ",", "3", NL>>

Texts == {TextSamples, TextMalformed, TextSpaces, TextNonFinite, TextExtra}

\* one line
TextLine ==
  <<"1", ",", "2", ",", "3", ",", "4", NL>>

\* the text sent when the whole page is explored, cut every PageChunk
\* characters
PageTexts == {TextLine}

\* what the user may type into the capacity input
PointsValues ==
  {<<>>, <<"0">>, <<"x">>, <<"-", "1">>, <<"1">>, <<"2">>, <<"3">>, <<" ", "2", "x">>}

\* the capacity input's value attribute when the page loads
InitialPoints == {<<"1">>, <<"2">>}

(***************************************************************************)
(* State.  A reference is 0 when null.  A characteristic object is named   *)
(* by the number of the GATT session that created it: the objects of an    *)
(* ended session stay referenced by the page but are dead.                 *)
(***************************************************************************)
VARIABLES
  lineBuffer,            \* text after the last newline received
  lineCount,             \* number of accepted lines
  csvLog,                \* accepted samples <<t, ax, ay, az>>, in order
  labels,                \* chartData.labels
  dataAx,                \* chartData.datasets[0].data
  dataAy,                \* chartData.datasets[1].data
  dataAz,                \* chartData.datasets[2].data
  pointsInput,           \* pointsInput.value
  MAX_POINTS_DEFAULT,    \* parseInt of the input's value at page load
  hung,                  \* the page's thread spins in pushSample's loop
  device, server, txChar, rxChar, connected,
  notifyHandler,         \* [set, on]: on = the session of the characteristic
                         \* the closure is registered on, 0 when on none
  connectBtnDisabled, disconnectBtnDisabled,
  calls,                 \* the connectBLE / disconnectBLE calls in flight
  gattConnected,         \* device.gatt.connected
  session,               \* number of GATT sessions established so far
  notifying,             \* notifications are started on the TX characteristic
  listeners,             \* closures registered on the live TX characteristic
  rxWrites,              \* payloads of the writeValue requests in flight
  stream,                \* the text the peripheral sends
  chunkLens,             \* the lengths it cuts its notifications to
  pos,                   \* how much of it has been notified
  rxText,                \* all text passed to parseLines so far
  alertMsg,              \* the alert the last step raised, NoAlert when none
  file                   \* the file it offered for download, NoFile when none

dataVars ==
  <<lineBuffer, lineCount, csvLog, labels, dataAx, dataAy, dataAz, hung>>

uiVars == <<pointsInput, MAX_POINTS_DEFAULT>>

handleVars == <<device, server, txChar, rxChar>>

pageVars ==
  <<connected, notifyHandler, connectBtnDisabled, disconnectBtnDisabled>>

gattVars == <<gattConnected, session, notifying, listeners>>

feedVars == <<stream, chunkLens, pos, rxText>>

outVars == <<alertMsg, file>>

vars ==
  <<dataVars, uiVars, handleVars, pageVars, calls, gattVars, rxWrites,
    feedVars, outVars>>

NoAlert == "none"
AlertConnect == "BLE connect failed"
AlertNotConnected == "connect first"
AlertNoRx == "RX write unsupported"
AlertWrite == "recalibration write failed"
AlertNoData == "no data"

NoFile == <<"no file">>

(***************************************************************************)
(* pushSample and parseLines, on the record of the data they work on.      *)
(***************************************************************************)
Data ==
  [lineBuffer |-> lineBuffer, lineCount |-> lineCount, csvLog |-> csvLog,
   labels |-> labels, ax |-> dataAx, ay |-> dataAy, az |-> dataAz,
   hung |-> hung]

EmptyData ==
  [lineBuffer |-> <<>>, lineCount |-> 0, csvLog |-> <<>>,
   labels |-> <<>>, ax |-> <<>>, ay |-> <<>>, az |-> <<>>, hung |-> FALSE]

\* Array.prototype.shift: nothing to remove from an empty array
shift(a) == IF a = <<>> THEN a ELSE Tail(a)

\* mutant: only the labels are shifted
ShiftLabelsOnly(d) == [d EXCEPT !.labels = shift(@)]

\* labels.shift() and datasets.forEach(ds => ds.data.shift())
ShiftAll(d) ==
  [d EXCEPT !.labels = shift(@), !.ax = shift(@), !.ay = shift(@),
            !.az = shift(@)]

\* mutant: an if in place of the while, at most one entry evicted
EvictOnce(d, maxPoints) ==
  IF GreaterThan(Len(d.labels), maxPoints) /\ d.labels # <<>>
  THEN ShiftAll(d)
  ELSE d

\* while (labels.length > maxPoints) { shift }: with nothing left to shift
\* and the condition still true the loop never ends
RECURSIVE Evict(_, _)
Evict(d, maxPoints) ==
  IF GreaterThan(Len(d.labels), maxPoints)
  THEN IF d.labels = <<>>
       THEN [d EXCEPT !.hung = TRUE]
       ELSE Evict(ShiftAll(d), maxPoints)
  ELSE d

\* parseInt(pointsInput.value, 10) || MAX_POINTS_DEFAULT
MaxPoints(input, dflt) ==
  IF Truthy(parseInt(input)) THEN parseInt(input) ELSE dflt

pushSample(d, t, ax, ay, az, input, dflt) ==
  Evict([d EXCEPT !.labels = Append(@, t), !.ax = Append(@, ax),
                  !.ay = Append(@, ay), !.az = Append(@, az)],
        MaxPoints(input, dflt))

\* mutant: the fourth field is not tested
AcceptedThreeFields(parts) ==
  /\ Len(parts) >= 4
  /\ \A i \in 1..3 : isFinite(Number(parts[i]))

\* the test that lets a line through: at least four fields, the first four
\* finite under Number()
Accepted(parts) ==
  /\ Len(parts) >= 4
  /\ \A i \in 1..4 : isFinite(Number(parts[i]))

\* the body of parseLines' loop for one line
ParseLine(d, l, input, dflt) ==
  LET line == trim(l)
      parts == split(line, ",")
  IN IF line = <<>> THEN d
     ELSE IF Len(parts) < 4 THEN d
     ELSE IF ~ Accepted(parts) THEN d
     ELSE LET t == Number(parts[1]).v
              ax == Number(parts[2]).v
              ay == Number(parts[3]).v
              az == Number(parts[4]).v
              counted == [d EXCEPT !.lineCount = @ + 1]
              pushed == pushSample(counted, t, ax, ay, az, input, dflt)
          IN IF pushed.hung THEN pushed
             ELSE [pushed EXCEPT !.csvLog = Append(@, <<t, ax, ay, az>>)]

RECURSIVE ParseEach(_, _, _, _)
ParseEach(d, lines, input, dflt) ==
  IF lines = <<>> \/ d.hung THEN d
  ELSE ParseEach(ParseLine(d, Head(lines), input, dflt), Tail(lines),
                 input, dflt)

\* mutant: the unfinished last line is not kept
parseLinesDropsFragment(d, text, input, dflt) ==
  LET lines == split(d.lineBuffer \o text, NL)
      kept == [d EXCEPT !.lineBuffer = <<>>]
  IN ParseEach(kept, SubSeq(lines, 1, Len(lines) - 1), input, dflt)

\* mutant: the finished lines are not taken out of the buffer
parseLinesKeepsLines(d, text, input, dflt) ==
  LET lines == split(d.lineBuffer \o text, NL)
      kept == [d EXCEPT !.lineBuffer = d.lineBuffer \o text]
  IN ParseEach(kept, SubSeq(lines, 1, Len(lines) - 1), input, dflt)

parseLines(d, text, input, dflt) ==
  LET lines == split(d.lineBuffer \o text, NL)
      kept == [d EXCEPT !.lineBuffer = lines[Len(lines)]]
  IN ParseEach(kept, SubSeq(lines, 1, Len(lines) - 1), input, dflt)

\* the notification handler of every registered closure runs parseLines on
\* the chunk
RECURSIVE Deliver(_, _, _, _, _)
Deliver(d, chunk, n, input, dflt) ==
  IF n = 0 \/ d.hung THEN d
  ELSE Deliver(parseLines(d, chunk, input, dflt), chunk, n - 1, input, dflt)

RECURSIVE Repeat(_, _)
Repeat(chunk, n) == IF n = 0 THEN <<>> ELSE chunk \o Repeat(chunk, n - 1)

SetData(d) ==
  /\ lineBuffer' = d.lineBuffer
  /\ lineCount' = d.lineCount
  /\ csvLog' = d.csvLog
  /\ labels' = d.labels
  /\ dataAx' = d.ax
  /\ dataAy' = d.ay
  /\ dataAz' = d.az
  /\ hung' = d.hung

Out(alert, f) ==
  /\ alertMsg' = alert
  /\ file' = f

(***************************************************************************)
(* The data path: notifications, the capacity input, the CSV download.     *)
(***************************************************************************)
\* a characteristicvaluechanged event with the next characters of the
\* stream, k of them or what is left
notify ==
  /\ ~ hung
  /\ gattConnected /\ notifying /\ listeners > 0
  /\ \E k \in chunkLens :
       LET n == IF pos + k <= Len(stream) THEN k ELSE Len(stream) - pos
           chunk == SubSeq(stream, pos + 1, pos + n)
       IN /\ SetData(Deliver(Data, chunk, listeners, pointsInput,
                             MAX_POINTS_DEFAULT))
          /\ rxText' = rxText \o Repeat(chunk, listeners)
          /\ pos' = pos + n
  /\ Out(NoAlert, NoFile)
  /\ UNCHANGED <<uiVars, handleVars, pageVars, calls, gattVars, rxWrites,
                 stream, chunkLens>>

\* the user edits the capacity input
setPoints ==
  /\ ~ hung
  /\ \E v \in PointsValues : v # pointsInput /\ pointsInput' = v
  /\ Out(NoAlert, NoFile)
  /\ UNCHANGED <<dataVars, MAX_POINTS_DEFAULT, handleVars, pageVars, calls,
                 gattVars, rxWrites, feedVars>>

Header ==
  <<"t", "_", "m", "s", ",", "a", "x", "_", "g", ",", "a", "y", "_", "g",
    ",", "a", "z", "_", "g", NL>>

\* mutant: the fields are joined by semicolons
RowTextSemicolons(row) ==
  join([i \in 1..Len(row) |-> NumberToString(row[i])], <<";">>)

\* row.join(',')
RowText(row) == join([i \in 1..Len(row) |-> NumberToString(row[i])], <<",">>)

\* mutant: the header is left out
CsvTextNoHeader(log) == join([i \in 1..Len(log) |-> RowText(log[i])], <<NL>>)

\* header + csvLog.map(row => row.join(',')).join('\n')
CsvText(log) == Header \o join([i \in 1..Len(log) |-> RowText(log[i])], <<NL>>)

downloadCSV ==
  /\ ~ hung
  /\ IF Len(csvLog) = 0
     THEN Out(AlertNoData, NoFile)
     ELSE Out(NoAlert, CsvText(csvLog))
  /\ UNCHANGED <<dataVars, uiVars, handleVars, pageVars, calls, gattVars,
                 rxWrites, feedVars>>

NoHandler == [set |-> FALSE, on |-> 0]

(***************************************************************************)
(* The GATT side.  Gatt is the record of the link's state; an object of    *)
(* session n is live while the link is up and n is the current session.    *)
(***************************************************************************)
Gatt ==
  [connected |-> gattConnected, session |-> session,
   notifying |-> notifying, listeners |-> listeners]

SetGatt(g) ==
  /\ gattConnected' = g.connected
  /\ session' = g.session
  /\ notifying' = g.notifying
  /\ listeners' = g.listeners

Live(g, obj) == g.connected /\ obj # 0 /\ obj = g.session

\* the link goes down: the session's objects die with their listeners
LinkDown(g) ==
  [g EXCEPT !.connected = FALSE, !.notifying = FALSE, !.listeners = 0]

\* the peripheral drops the link.  The gattserverdisconnected event finds
\* no listener: the page registers onDisconnected nowhere
linkLoss ==
  /\ gattConnected
  /\ SetGatt(LinkDown(Gatt))
  /\ Out(NoAlert, NoFile)
  /\ UNCHANGED <<dataVars, uiVars, handleVars, pageVars, calls, rxWrites,
                 feedVars>>

(***************************************************************************)
(* The calls in flight: a bag of records [fn, pc, service, char].  fn is   *)
(* the handler the call began as, pc the await it is suspended at, service *)
(* and char the objects its pending request was made on.                   *)
(***************************************************************************)
Call(fn, pc, service, char) ==
  [fn |-> fn, pc |-> pc, service |-> service, char |-> char]

Suspended(cl) == BagIn(cl, calls)

\* call cl resumes and suspends again as next
Resume(cl, next) == calls' = (calls (-) SetToBag({cl})) (+) SetToBag({next})

\* call cl resumes and returns
Return(cl) == calls' = calls (-) SetToBag({cl})

\* a handler starts and suspends as next
Start(next) ==
  /\ BagCardinality(calls) < MaxCalls
  /\ calls' = calls (+) SetToBag({next})

(***************************************************************************)
(* disconnectBLE, run as the disconnect button's handler or from           *)
(* connectBLE's catch block.                                               *)
(***************************************************************************)
\* if (device?.gatt?.connected) await device.gatt.disconnect()
GattDisconnect(g, dev) == IF dev # 0 /\ g.connected THEN LinkDown(g) ELSE g

\* disconnectBLE from its entry to its first await that yields: that of
\* stopNotifications when txChar is set, else the timer of the finally
\* block; the result is the call's suspension and the link's state
DisconnectEntry(fn, g, tx, dev) ==
  IF tx # 0
  THEN [call |-> Call(fn, "stopNotifications", 0, tx), gatt |-> g]
  ELSE [call |-> Call(fn, "timer", 0, 0), gatt |-> GattDisconnect(g, dev)]

\* click on the disconnect button
disconnectBLE ==
  /\ ~ hung
  /\ ~ disconnectBtnDisabled
  /\ LET e == DisconnectEntry("disconnectBLE", Gatt, txChar, device) IN
       /\ Start(e.call)
       /\ SetGatt(e.gatt)
  /\ Out(NoAlert, NoFile)
  /\ UNCHANGED <<dataVars, uiVars, handleVars, pageVars, rxWrites, feedVars>>

\* stopNotifications settles (a rejection is ignored); then the listener
\* held in notifyHandler is removed from txChar, which throws when txChar
\* has been cleared meanwhile, and the GATT link is closed
stopNotificationsSettled(cl) ==
  /\ ~ hung
  /\ Suspended(cl)
  /\ cl.pc = "stopNotifications"
  /\ \E ok \in BOOLEAN :
       /\ ok => Live(Gatt, cl.char)
       /\ LET g1 == IF ok THEN [Gatt EXCEPT !.notifying = FALSE] ELSE Gatt
              removed == /\ notifyHandler.set
                         /\ txChar # 0
                         /\ notifyHandler.on = txChar
                         /\ Live(g1, txChar)
              g2 == IF removed THEN [g1 EXCEPT !.listeners = @ - 1] ELSE g1
              threw == notifyHandler.set /\ txChar = 0
          IN /\ notifyHandler' =
                  IF notifyHandler.set /\ txChar # 0 THEN NoHandler
                  ELSE notifyHandler
             /\ SetGatt(IF threw THEN g2 ELSE GattDisconnect(g2, device))
  /\ Resume(cl, Call(cl.fn, "timer", 0, 0))
  /\ Out(NoAlert, NoFile)
  /\ UNCHANGED <<dataVars, uiVars, handleVars, connected,
                 connectBtnDisabled, disconnectBtnDisabled, rxWrites,
                 feedVars>>

\* mutant: the finally block empties the line buffer
disconnectFinallyClearsBuffer(cl) ==
  /\ ~ hung
  /\ Suspended(cl)
  /\ cl.pc = "timer"
  /\ device' = 0
  /\ server' = 0
  /\ txChar' = 0
  /\ rxChar' = 0
  /\ connected' = FALSE
  /\ connectBtnDisabled' = FALSE
  /\ disconnectBtnDisabled' = TRUE
  /\ Return(cl)
  /\ Out(NoAlert, NoFile)
  /\ lineBuffer' = <<>>
  /\ UNCHANGED <<lineCount, csvLog, labels, dataAx, dataAy, dataAz, hung,
                 uiVars, notifyHandler, gattVars, rxWrites, feedVars>>

\* mutant: the finally block clears the log as well
disconnectFinallyClearsLog(cl) ==
  /\ ~ hung
  /\ Suspended(cl)
  /\ cl.pc = "timer"
  /\ device' = 0
  /\ server' = 0
  /\ txChar' = 0
  /\ rxChar' = 0
  /\ connected' = FALSE
  /\ connectBtnDisabled' = FALSE
  /\ disconnectBtnDisabled' = TRUE
  /\ Return(cl)
  /\ Out(NoAlert, NoFile)
  /\ csvLog' = <<>>
  /\ lineCount' = 0
  /\ UNCHANGED <<lineBuffer, labels, dataAx, dataAy, dataAz, hung, uiVars,
                 notifyHandler, gattVars, rxWrites, feedVars>>

\* the 800 ms timer of the finally block fires: references cleared, UI reset
disconnectFinally(cl) ==
  /\ ~ hung
  /\ Suspended(cl)
  /\ cl.pc = "timer"
  /\ device' = 0
  /\ server' = 0
  /\ txChar' = 0
  /\ rxChar' = 0
  /\ connected' = FALSE
  /\ connectBtnDisabled' = FALSE
  /\ disconnectBtnDisabled' = TRUE
  /\ Return(cl)
  /\ Out(NoAlert, NoFile)
  /\ UNCHANGED <<dataVars, uiVars, notifyHandler, gattVars, rxWrites,
                 feedVars>>

(***************************************************************************)
(* connectBLE, one action per await.                                       *)
(***************************************************************************)
\* mutant: the catch block raises no alert
CatchSilent(cl, g, tx, dev) ==
  /\ LET e == DisconnectEntry("connectBLE", g, tx, dev) IN
       /\ Resume(cl, e.call)
       /\ SetGatt(e.gatt)
  /\ Out(NoAlert, NoFile)

\* the catch block: the alert, then disconnectBLE up to its first await
Catch(cl, g, tx, dev) ==
  /\ LET e == DisconnectEntry("connectBLE", g, tx, dev) IN
       /\ Resume(cl, e.call)
       /\ SetGatt(e.gatt)
  /\ Out(AlertConnect, NoFile)

\* click on the connect button: requestDevice is pending
connectBLE ==
  /\ ~ hung
  /\ ~ connectBtnDisabled
  /\ Start(Call("connectBLE", "requestDevice", 0, 0))
  /\ Out(NoAlert, NoFile)
  /\ UNCHANGED <<dataVars, uiVars, handleVars, pageVars, gattVars, rxWrites,
                 feedVars>>

\* an awaited promise of connectBLE rejects
awaitRejected(cl) ==
  /\ ~ hung
  /\ Suspended(cl)
  /\ cl.pc \in {"requestDevice", "gattConnect", "getPrimaryService", "getTx",
                "startNotifications"}
  /\ Catch(cl, Gatt, txChar, device)
  /\ UNCHANGED <<dataVars, uiVars, handleVars, pageVars, rxWrites, feedVars>>

\* the user picks the device; device.gatt.connect() is pending
requestDeviceResolved(cl) ==
  /\ ~ hung
  /\ Suspended(cl)
  /\ cl.pc = "requestDevice"
  /\ device' = 1
  /\ Resume(cl, Call("connectBLE", "gattConnect", 0, 0))
  /\ Out(NoAlert, NoFile)
  /\ UNCHANGED <<dataVars, uiVars, server, txChar, rxChar, pageVars, gattVars,
                 rxWrites, feedVars>>

\* the link is up (a new session unless it was up already);
\* getPrimaryService is pending
gattConnectResolved(cl) ==
  /\ ~ hung
  /\ Suspended(cl)
  /\ cl.pc = "gattConnect"
  /\ IF gattConnected
     THEN UNCHANGED gattVars
     ELSE /\ session < MaxSessions
          /\ SetGatt([connected |-> TRUE, session |-> session + 1,
                      notifying |-> FALSE, listeners |-> 0])
  /\ server' = 1
  /\ Resume(cl, Call("connectBLE", "getPrimaryService", 0, 0))
  /\ Out(NoAlert, NoFile)
  /\ UNCHANGED <<dataVars, uiVars, device, txChar, rxChar, pageVars, rxWrites,
                 feedVars>>

\* the service object; getCharacteristic(NUS_TX_CHAR) is pending
getPrimaryServiceResolved(cl) ==
  /\ ~ hung
  /\ Suspended(cl)
  /\ cl.pc = "getPrimaryService"
  /\ gattConnected
  /\ Resume(cl, Call("connectBLE", "getTx", session, 0))
  /\ Out(NoAlert, NoFile)
  /\ UNCHANGED <<dataVars, uiVars, handleVars, pageVars, gattVars, rxWrites,
                 feedVars>>

\* txChar is set; getCharacteristic(NUS_RX_CHAR) is pending
getTxResolved(cl) ==
  /\ ~ hung
  /\ Suspended(cl)
  /\ cl.pc = "getTx"
  /\ Live(Gatt, cl.service)
  /\ txChar' = session
  /\ Resume(cl, Call("connectBLE", "getRx", session, 0))
  /\ Out(NoAlert, NoFile)
  /\ UNCHANGED <<dataVars, uiVars, device, server, rxChar, pageVars, gattVars,
                 rxWrites, feedVars>>

\* rxChar is set, or null when the lookup rejects; then
\* txChar.startNotifications() is called, which throws when txChar has been
\* cleared meanwhile
getRxSettled(cl) ==
  /\ ~ hung
  /\ Suspended(cl)
  /\ cl.pc = "getRx"
  /\ \E ok \in BOOLEAN :
       /\ ok => Live(Gatt, cl.service)
       /\ rxChar' = IF ok THEN session ELSE 0
  /\ IF txChar = 0
     THEN Catch(cl, Gatt, txChar, device)
     ELSE /\ Resume(cl, Call("connectBLE", "startNotifications", 0, txChar))
          /\ Out(NoAlert, NoFile)
          /\ UNCHANGED gattVars
  /\ UNCHANGED <<dataVars, uiVars, device, server, txChar, pageVars, rxWrites,
                 feedVars>>

\* notifications are on: a new closure is stored in notifyHandler and
\* registered on txChar, the page is marked connected and the status line
\* reads device.name.  txChar or device cleared meanwhile makes the
\* statement that reads it throw
startNotificationsResolved(cl) ==
  /\ ~ hung
  /\ Suspended(cl)
  /\ cl.pc = "startNotifications"
  /\ Live(Gatt, cl.char)
  /\ listeners < MaxListeners
  /\ LET g1 == [Gatt EXCEPT !.notifying = TRUE]
         g2 == IF Live(g1, txChar) THEN [g1 EXCEPT !.listeners = @ + 1] ELSE g1
     IN IF txChar = 0
        THEN /\ notifyHandler' = [set |-> TRUE, on |-> 0]
             /\ Catch(cl, g1, txChar, device)
             /\ UNCHANGED <<connected, connectBtnDisabled, disconnectBtnDisabled>>
        ELSE /\ notifyHandler' = [set |-> TRUE, on |-> txChar]
             /\ connected' = TRUE
             /\ connectBtnDisabled' = TRUE
             /\ disconnectBtnDisabled' = FALSE
             /\ IF device = 0
                THEN Catch(cl, g2, txChar, device)
                ELSE /\ SetGatt(g2)
                     /\ Return(cl)
                     /\ Out(NoAlert, NoFile)
  /\ UNCHANGED <<dataVars, uiVars, handleVars, rxWrites, feedVars>>

(***************************************************************************)
(* sendRecal.  rxWrites holds the writeValue requests in flight, each with *)
(* its payload, the characteristic it was made on and whether the GATT     *)
(* side has rejected it.                                                   *)
(***************************************************************************)
CharCode(ch) == CASE ch = "X" -> 88 [] ch = NL -> 10

\* TextEncoder.encode of ASCII text: one byte per character
encode(text) == [i \in 1..Len(text) |-> CharCode(text[i])]

\* mutant: the connected flag is not tested
sendRecalUnchecked ==
  /\ ~ hung
  /\ IF rxChar = 0
     THEN /\ Out(AlertNoRx, NoFile)
          /\ UNCHANGED rxWrites
     ELSE /\ Len(rxWrites) < MaxWrites
          /\ rxWrites' = Append(rxWrites,
                                [payload |-> encode(<<"X", NL>>),
                                 char |-> rxChar, rejected |-> FALSE])
          /\ Out(NoAlert, NoFile)
  /\ UNCHANGED <<dataVars, uiVars, handleVars, pageVars, calls, gattVars,
                 feedVars>>

\* click on the recalibration button
sendRecal ==
  /\ ~ hung
  /\ IF ~ connected
     THEN /\ Out(AlertNotConnected, NoFile)
          /\ UNCHANGED rxWrites
     ELSE IF rxChar = 0
     THEN /\ Out(AlertNoRx, NoFile)
          /\ UNCHANGED rxWrites
     ELSE /\ Len(rxWrites) < MaxWrites
          /\ rxWrites' = Append(rxWrites,
                                [payload |-> encode(<<"X", NL>>),
                                 char |-> rxChar, rejected |-> FALSE])
          /\ Out(NoAlert, NoFile)
  /\ UNCHANGED <<dataVars, uiVars, handleVars, pageVars, calls, gattVars,
                 feedVars>>

\* the GATT side rejects the oldest write
writeValueRejected ==
  /\ rxWrites # <<>>
  /\ ~ Head(rxWrites).rejected
  /\ rxWrites' = <<[Head(rxWrites) EXCEPT !.rejected = TRUE]>> \o Tail(rxWrites)
  /\ Out(NoAlert, NoFile)
  /\ UNCHANGED <<dataVars, uiVars, handleVars, pageVars, calls, gattVars,
                 feedVars>>

\* mutant: the catch block drops the session
writeValueSettledTearsDown ==
  /\ ~ hung
  /\ rxWrites # <<>>
  /\ Head(rxWrites).rejected \/ Live(Gatt, Head(rxWrites).char)
  /\ rxWrites' = Tail(rxWrites)
  /\ IF Head(rxWrites).rejected
     THEN /\ Out(AlertWrite, NoFile)
          /\ device' = 0
          /\ server' = 0
          /\ txChar' = 0
          /\ rxChar' = 0
          /\ connected' = FALSE
     ELSE /\ Out(NoAlert, NoFile)
          /\ UNCHANGED <<handleVars, connected>>
  /\ UNCHANGED <<dataVars, uiVars, notifyHandler, connectBtnDisabled,
                 disconnectBtnDisabled, calls, gattVars, feedVars>>

\* sendRecal resumes after its await: past it when the write was done, in
\* its catch block when it was rejected
writeValueSettled ==
  /\ ~ hung
  /\ rxWrites # <<>>
  /\ Head(rxWrites).rejected \/ Live(Gatt, Head(rxWrites).char)
  /\ rxWrites' = Tail(rxWrites)
  /\ IF Head(rxWrites).rejected
     THEN Out(AlertWrite, NoFile)
     ELSE Out(NoAlert, NoFile)
  /\ UNCHANGED <<dataVars, uiVars, handleVars, pageVars, calls, gattVars,
                 feedVars>>

(***************************************************************************)
(* Initial states.                                                         *)
(***************************************************************************)
DataInit(texts, lens, points) ==
  /\ lineBuffer = <<>>
  /\ lineCount = 0
  /\ csvLog = <<>>
  /\ labels = <<>>
  /\ dataAx = <<>>
  /\ dataAy = <<>>
  /\ dataAz = <<>>
  /\ hung = FALSE
  /\ pointsInput \in points
  /\ MAX_POINTS_DEFAULT = parseInt(pointsInput)
  /\ stream \in texts
  /\ chunkLens = lens
  /\ pos = 0
  /\ rxText = <<>>
  /\ alertMsg = NoAlert
  /\ file = NoFile

\* the page as loaded: no session
Init ==
  /\ DataInit(PageTexts, {PageChunk}, {<<"2">>})
  /\ device = 0
  /\ server = 0
  /\ txChar = 0
  /\ rxChar = 0
  /\ connected = FALSE
  /\ notifyHandler = NoHandler
  /\ connectBtnDisabled = FALSE
  /\ disconnectBtnDisabled = TRUE
  /\ calls = EmptyBag
  /\ gattConnected = FALSE
  /\ session = 0
  /\ notifying = FALSE
  /\ listeners = 0
  /\ rxWrites = <<>>

\* the page in its first session: one connectBLE call has run to its end
\* without an error, with or without an RX characteristic
SessionInit ==
  /\ DataInit(Texts, 0..MaxChunk, InitialPoints)
  /\ device = 1
  /\ server = 1
  /\ txChar = 1
  /\ rxChar \in {0, 1}
  /\ connected = TRUE
  /\ notifyHandler = [set |-> TRUE, on |-> 1]
  /\ connectBtnDisabled = TRUE
  /\ disconnectBtnDisabled = FALSE
  /\ calls = EmptyBag
  /\ gattConnected = TRUE
  /\ session = 1
  /\ notifying = TRUE
  /\ listeners = 1
  /\ rxWrites = <<>>

NextData == notify \/ setPoints \/ downloadCSV

\* the data path of one session
SpecData == SessionInit /\ [][NextData]_vars

Pending == BagToSet(calls)

\* connecting and disconnecting
NextLink ==
  \/ linkLoss
  \/ connectBLE
  \/ disconnectBLE
  \/ \E cl \in Pending : requestDeviceResolved(cl)
  \/ \E cl \in Pending : gattConnectResolved(cl)
  \/ \E cl \in Pending : getPrimaryServiceResolved(cl)
  \/ \E cl \in Pending : getTxResolved(cl)
  \/ \E cl \in Pending : getRxSettled(cl)
  \/ \E cl \in Pending : startNotificationsResolved(cl)
  \/ \E cl \in Pending : awaitRejected(cl)
  \/ \E cl \in Pending : stopNotificationsSettled(cl)
  \/ \E cl \in Pending : disconnectFinally(cl)

NextRecal == sendRecal \/ writeValueRejected \/ writeValueSettled

\* the session handling alone
SpecLink == Init /\ [][NextLink]_vars

\* a suspended call resumes once its promise is settled or its timer due
Resumes ==
  \E cl \in Pending : stopNotificationsSettled(cl) \/ disconnectFinally(cl)

\* the session handling with every teardown run to its end
SpecLinkFair == SpecLink /\ WF_vars(Resumes)

\* the session handling and the recalibration button
SpecRecal == Init /\ [][NextLink \/ NextRecal]_vars

\* the whole page, the capacity input left as loaded
Next == NextLink \/ NextRecal \/ notify \/ downloadCSV

Spec == Init /\ [][Next]_vars

(***************************************************************************)
(* What the claims speak of, said without the parser's code.               *)
(***************************************************************************)
\* the text after the last newline of s
RECURSIVE LastFragment(_)
LastFragment(s) ==
  IF s = <<>> \/ s[Len(s)] = NL THEN <<>>
  ELSE Append(LastFragment(SubSeq(s, 1, Len(s) - 1)), s[Len(s)])

\* the newline-terminated lines of s, in order
RECURSIVE CompleteLines(_, _)
CompleteLines(s, cur) ==
  IF s = <<>> THEN <<>>
  ELSE IF Head(s) = NL THEN <<cur>> \o CompleteLines(Tail(s), <<>>)
  ELSE CompleteLines(Tail(s), Append(cur, Head(s)))

Fields(l) == split(trim(l), ",")

\* the line has at least four fields and its first four are finite numbers
FourFiniteFields(l) ==
  /\ Len(Fields(l)) >= 4
  /\ \A i \in 1..4 : Number(Fields(l)[i]).k = "num"

SampleOf(l) == [i \in 1..4 |-> Number(Fields(l)[i]).v]

RECURSIVE SamplesOf(_)
SamplesOf(ls) ==
  IF ls = <<>> THEN <<>>
  ELSE IF FourFiniteFields(Head(ls))
       THEN <<SampleOf(Head(ls))>> \o SamplesOf(Tail(ls))
       ELSE SamplesOf(Tail(ls))

WellFormed(text) == SamplesOf(CompleteLines(text, <<>>))

Last(s) == s[Len(s)]

Min(a, b) == IF a < b THEN a ELSE b

\* the chart's entries as samples
ChartRows ==
  [i \in 1..Len(labels) |-> <<labels[i], dataAx[i], dataAy[i], dataAz[i]>>]

Suffix(s, n) == SubSeq(s, Len(s) - n + 1, Len(s))

\* C1: fed in chunks, the parser has accepted the same samples, counted the
\* same lines and kept the same fragment as one parseLines call on all the
\* text received would from the empty state
C1_ChunkSplitInvariance ==
  ~ hung =>
    LET once == parseLines(EmptyData, rxText, <<"1">>, Num(1)) IN
      /\ csvLog = once.csvLog
      /\ lineCount = once.lineCount
      /\ lineBuffer = once.lineBuffer

\* C1: two lines accepted out of more text than one chunk holds, the last
\* chunk ending inside a line
C1_Witness ==
  /\ lineCount >= 2
  /\ lineBuffer # <<>>
  /\ Len(rxText) > MaxChunk + 1

\* C2: the accepted samples are those of the newline-terminated lines with
\* four finite fields, each counted, logged and charted
C2_AcceptFourFinite ==
  ~ hung =>
    /\ csvLog = WellFormed(rxText)
    /\ lineCount = Len(csvLog)
    /\ csvLog # <<>> => labels # <<>> /\ Last(ChartRows) = Last(csvLog)

\* C2: a line was accepted and a line of too few fields, or of no number,
\* was received
C2_Witness ==
  /\ lineCount >= 1
  /\ \E l \in {<<"1", ",", "2">>, <<"x">>} :
       \E i \in 1..Len(CompleteLines(rxText, <<>>)) :
         CompleteLines(rxText, <<>>)[i] = l

\* C3: lineBuffer has no newline and is the text after the last newline
\* received; a step that completes no well-formed line changes neither
\* count, log nor chart; every well-formed line completed is accepted
C3_BufferIntact ==
  /\ [](/\ \A i \in 1..Len(lineBuffer) : lineBuffer[i] # NL
        /\ lineBuffer = LastFragment(rxText))
  /\ [][\/ UNCHANGED <<lineCount, csvLog, labels, dataAx, dataAy, dataAz>>
         \/ Len(WellFormed(rxText')) # Len(WellFormed(rxText))]_vars
  /\ [][\/ hung'
         \/ UNCHANGED <<lineCount, rxText>>
         \/ lineCount' - lineCount
              = Len(WellFormed(rxText')) - Len(WellFormed(rxText))]_vars

\* C3: a malformed line was dropped and the last line received accepted, with a
\* fragment of the next line buffered
C3_Witness ==
  /\ lineBuffer # <<>>
  /\ csvLog # <<>>
  /\ Len(CompleteLines(rxText, <<>>)) > Len(csvLog)
  /\ FourFiniteFields(Last(CompleteLines(rxText, <<>>)))
  /\ \E i \in 1..Len(CompleteLines(rxText, <<>>)) :
       ~ FourFiniteFields(CompleteLines(rxText, <<>>)[i])

\* C4 as claimed: after a push with capacity N >= 1 the chart holds the
\* last min(N, number accepted) samples
C4_Original ==
  [][(lineCount' > lineCount /\ ~ hung'
        /\ MaxPoints(pointsInput, MAX_POINTS_DEFAULT).k = "num"
        /\ MaxPoints(pointsInput, MAX_POINTS_DEFAULT).v >= 1)
       => ChartRows'
            = Suffix(csvLog', Min(MaxPoints(pointsInput, MAX_POINTS_DEFAULT).v,
                                  Len(csvLog')))]_vars

\* C4: after a push with capacity N >= 1 the chart holds at most N
\* entries: the last min(N, entries held before + samples pushed) samples
\* of the log, in order
C4_BoundedFifo ==
  [][(lineCount' > lineCount /\ ~ hung'
        /\ MaxPoints(pointsInput, MAX_POINTS_DEFAULT).k = "num"
        /\ MaxPoints(pointsInput, MAX_POINTS_DEFAULT).v >= 1)
       => /\ Len(labels') <= MaxPoints(pointsInput, MAX_POINTS_DEFAULT).v
          /\ ChartRows'
               = Suffix(csvLog', Min(MaxPoints(pointsInput, MAX_POINTS_DEFAULT).v,
                                     Len(labels) + lineCount' - lineCount))]_vars

\* C4: the capacity was lowered below the chart's length and a push has
\* trimmed the chart to it
C4_Witness ==
  /\ Len(csvLog) >= 3
  /\ Len(labels) = 1
  /\ MAX_POINTS_DEFAULT = Num(2)
  /\ pointsInput = <<"1">>

\* C5: outside pushSample the labels and the three series have one length
\* and position i of all four holds one sample of the log
C5_SeriesInStep ==
  ~ hung =>
    /\ Len(dataAx) = Len(labels)
    /\ Len(dataAy) = Len(labels)
    /\ Len(dataAz) = Len(labels)
    /\ Len(labels) <= Len(csvLog)
    /\ ChartRows = Suffix(csvLog, Len(labels))

\* C5: entries have been evicted
C5_Witness ==
  /\ Len(labels) >= 2
  /\ Len(csvLog) > Len(labels)

\* the handle is empty and the page shows the disconnected state
ResetState ==
  /\ device = 0
  /\ server = 0
  /\ txChar = 0
  /\ rxChar = 0
  /\ ~ connected
  /\ ~ connectBtnDisabled
  /\ disconnectBtnDisabled

TeardownPcs == {"stopNotifications", "timer"}

\* the calls of bag b that began as fn and are, or are not, tearing down
CountCalls(b, fn, tearing) ==
  BagCardinality([cl \in {x \in BagToSet(b) :
                            x.fn = fn /\ (x.pc \in TeardownPcs) = tearing}
                    |-> CopiesIn(cl, b)])

\* a disconnectBLE run is under way, or the link is down under a page that
\* shows the connected state
Disconnected ==
  \/ \E cl \in Pending : cl.pc \in TeardownPcs
  \/ connected /\ ~ gattConnected

\* C6: after every disconnect (the button, a failed connect, a link loss)
\* the page comes to the state with the handle empty, connected false, the
\* connect button enabled and the disconnect button disabled
C6_ResetOnEveryDisconnect == Disconnected ~> ResetState

\* C7: a connect that fails raises the alert; no connect attempt begins
\* but by a click on the enabled connect button; when the failed call
\* returns, connected is false, the handle empty, the connect button enabled
C7_FailedConnectTornDown ==
  /\ [][CountCalls(calls', "connectBLE", TRUE) > CountCalls(calls, "connectBLE", TRUE)
          => alertMsg' = AlertConnect]_vars
  /\ [][CountCalls(calls', "connectBLE", FALSE) > CountCalls(calls, "connectBLE", FALSE)
          => /\ ~ connectBtnDisabled
             /\ CountCalls(calls', "connectBLE", TRUE)
                  = CountCalls(calls, "connectBLE", TRUE)]_vars
  /\ [][CountCalls(calls', "connectBLE", TRUE) < CountCalls(calls, "connectBLE", TRUE)
          => ResetState']_vars

\* C7: a connect has failed after the link was up and is tearing down
C7_Witness ==
  /\ alertMsg = AlertConnect
  /\ session >= 1
  /\ \E cl \in Pending : cl.fn = "connectBLE" /\ cl.pc = "timer"

\* C8: a write is issued only with connected true and rxChar set, and is
\* of the bytes of 'X' and newline; sendRecal when not connected, or with
\* no rxChar, raises its alert and issues no write; a rejected write raises
\* the alert
C8_RecalWrite ==
  /\ [][Len(rxWrites') > Len(rxWrites)
          => /\ connected
             /\ rxChar # 0
             /\ rxWrites' = Append(rxWrites, [payload |-> <<88, 10>>,
                                               char |-> rxChar,
                                               rejected |-> FALSE])
             /\ alertMsg' = NoAlert]_vars
  /\ [][sendRecal /\ ~ connected
          => alertMsg' = AlertNotConnected /\ UNCHANGED rxWrites]_vars
  /\ [][sendRecal /\ connected /\ rxChar = 0
          => alertMsg' = AlertNoRx /\ UNCHANGED rxWrites]_vars
  /\ [][rxWrites # <<>> /\ Head(rxWrites).rejected /\ rxWrites' = Tail(rxWrites)
          => alertMsg' = AlertWrite]_vars

\* C8: a write was issued, was rejected, and the alert is up
C8_Witness == alertMsg = AlertWrite

\* C8: sendRecal was refused for want of an RX characteristic
C8_WitnessNoRx == alertMsg = AlertNoRx

IsPrefix(a, b) == Len(a) <= Len(b) /\ a = SubSeq(b, 1, Len(a))

HeaderLine ==
  <<"t", "_", "m", "s", ",", "a", "x", "_", "g", ",", "a", "y", "_", "g",
    ",", "a", "z", "_", "g">>

\* C10: a download of a non-empty log offers the header line and one row
\* per sample, in order, of the sample's four fields, and raises no alert;
\* of an empty log, an alert and no file
C10_CsvExport ==
  /\ [](/\ alertMsg = AlertNoData => csvLog = <<>> /\ file = NoFile
        /\ file # NoFile =>
             LET rows == split(file, NL) IN
               /\ alertMsg = NoAlert
               /\ csvLog # <<>>
               /\ Len(rows) = 1 + Len(csvLog)
               /\ rows[1] = HeaderLine
               /\ \A i \in 1..Len(csvLog) :
                    /\ Len(split(rows[i + 1], ",")) = 4
                    /\ \A j \in 1..4 :
                         split(rows[i + 1], ",")[j]
                           = NumberToString(csvLog[i][j]))
  /\ [][downloadCSV =>
          IF csvLog = <<>> THEN alertMsg' = AlertNoData ELSE file' # NoFile]_vars

\* C10: a log of several samples, one of them negative, was downloaded
C10_Witness ==
  /\ file # NoFile
  /\ Len(csvLog) >= 2
  /\ \E i \in 1..Len(csvLog) : csvLog[i][1] < 0

\* C10: a download was asked of an empty log
C10_WitnessEmpty ==
  /\ alertMsg = AlertNoData
  /\ file = NoFile

\* C11: at most one characteristicvaluechanged handler is registered at
\* any time, so that a notification is parsed once
C11_SingleHandler == listeners <= 1

\* the line has exactly four fields, none empty, all finite numbers
FourFieldsExactly(l) ==
  /\ Len(Fields(l)) = 4
  /\ \A i \in 1..4 :
       /\ trim(Fields(l)[i]) # <<>>
       /\ Number(Fields(l)[i]).k = "num"

RECURSIVE StrictSamplesOf(_)
StrictSamplesOf(ls) ==
  IF ls = <<>> THEN <<>>
  ELSE IF FourFieldsExactly(Head(ls))
       THEN <<SampleOf(Head(ls))>> \o StrictSamplesOf(Tail(ls))
       ELSE StrictSamplesOf(Tail(ls))

\* C12: the accepted samples are those of the lines with exactly four
\* fields, none of them empty; a line of five fields or with an empty field
\* is dropped
C12_ExactlyFourNonEmpty ==
  ~ hung => csvLog = StrictSamplesOf(CompleteLines(rxText, <<>>))

\* C13: pushSample returns, whatever the capacity input holds and whatever
\* the chart holds
C13_PushSampleTerminates == ~ hung

\* parseLines from the empty parser state
RoundTrip(text) == parseLines(EmptyData, text, <<"1">>, Num(1))

\* C14 as claimed: the text of a download, parsed from the empty state,
\* gives back the exported samples
C14_Original ==
  file # NoFile => RoundTrip(file).csvLog = csvLog

\* C14: the text of a download, parsed from the empty state, gives back the
\* exported samples but the last, whose row stays in lineBuffer for want of
\* a newline; followed by a newline it gives back all of them
C14_RoundTrip ==
  file # NoFile =>
    /\ RoundTrip(file).csvLog = SubSeq(csvLog, 1, Len(csvLog) - 1)
    /\ RoundTrip(file).lineCount = Len(csvLog) - 1
    /\ RoundTrip(file).lineBuffer = RowText(Last(csvLog))
    /\ RoundTrip(file \o <<NL>>).csvLog = csvLog
    /\ RoundTrip(file \o <<NL>>).lineBuffer = <<>>

\* C14: a log of several samples was downloaded
C14_Witness ==
  /\ file # NoFile
  /\ Len(csvLog) >= 2

\* C15: with connected false and no connectBLE or disconnectBLE call in
\* flight the link is down and no notification handler is registered
C15_DisconnectedMeansDown ==
  (~ connected /\ calls = EmptyBag) => (~ gattConnected /\ listeners = 0)

\* C16: no step of connecting or disconnecting changes the line buffer, the
\* count, the log or the chart, and the parser's state is that of all the
\* text received as one stream, whatever sessions it came in
C16_SessionsKeepData ==
  /\ [][(calls' # calls \/ handleVars' # handleVars \/ pageVars' # pageVars
           \/ gattVars' # gattVars)
          => UNCHANGED <<lineBuffer, lineCount, csvLog, labels, dataAx,
                         dataAy, dataAz>>]_vars
  /\ [](/\ lineBuffer = LastFragment(rxText)
        /\ csvLog = WellFormed(rxText))

\* C16: a second session is being set up, no notification of it can have
\* come yet, and the fragment received in the first session is buffered
C16_Witness ==
  /\ session = 2
  /\ gattConnected
  /\ ~ notifying
  /\ listeners = 0
  /\ txChar = 0
  /\ lineBuffer # <<>>
  /\ csvLog = <<>>
  /\ \E cl \in Pending : cl.fn = "connectBLE" /\ cl.pc = "getPrimaryService"

====
